---- MODULE Spec2Model ----
(***************************************************************************)
(* A model of adb-sync-rs: the one-pass tree synchronisation performed by  *)
(* pull_push (src/src/main.rs).  A path is a sequence of components, a     *)
(* component and a file name are sequences of one-character strings, so    *)
(* that the string prefix test of the ignore filter and the trailing-dot   *)
(* adjustment are computed as the code computes them.                      *)
(*                                                                         *)
(* The FileSystem trait, SyncFile and the adb transfer live in the modules *)
(* fs and adb, which src/src/lib.rs declares; their effect on a tree is    *)
(* modelled from the specification (section 6, Tree Adapter contract).     *)
(***************************************************************************)
EXTENDS Integers, Sequences, FiniteSets, TLC

\* ------------------------------------------------------------------ bounds
\* Every source file listed at the start has timestamp MaxTime; the
\* destination files have the timestamps 1..MaxTime+1 (older, equal, newer).
MaxTime == 2
\* How many times pull_push is run in succession on the same pair of trees.
MaxRuns == 2

\* ------------------------------------------------- the universe of inputs
a == <<"a">>
b == <<"b">>
ab == <<"a", "b">>
x == <<"x">>
xdot == <<"x", ".">>

\* Relative directories: "" (the root), "a", "ab", "a/b".
RelDirs == {<<>>, <<a>>, <<ab>>, <<a, b>>}
Names == {x, xdot}
\* Every source file has the first size; a destination file has either.
SrcSizes == {1}
DestSizes == {1, 2}
SrcTimes == {MaxTime}
DestTimes == 1..(MaxTime + 1)
\* A tree holds, besides the directories of its files, at most one more
\* directory (and the ancestors of that directory), and a tree of two files
\* holds none.
ExtraDirs(F) ==
    IF Cardinality(F) >= 2 THEN {{}}
    ELSE {{}} \cup {{d} : d \in RelDirs \ {<<>>}}
\* The -i arguments that are tried: none, "a" (skips a, ab, a/b), "ab".
IgnoreChoices == {{}, {a}, {ab}}
\* How many files a source tree and a destination tree hold at the start.
SrcFileCounts == {0, 1, 2}
DestFileCounts == {0, 1, 2}
\* At the start one of the two trees holds at most one file.
SmallCounts == {0, 1}

\* An adb transfer without -a stamps the destination file with the time of the
\* transfer, which is later than the timestamp of every file listed before it.
TransferTime == MaxTime + 2

\* ------------------------------------------------------------- path algebra
IsPrefix(p, q) == Len(p) <= Len(q) /\ SubSeq(q, 1, Len(p)) = p

strip_prefix(p, dir) == SubSeq(p, Len(dir) + 1, Len(p))

pop(p) == SubSeq(p, 1, Len(p) - 1)

join(p, q) == p \o q

file_name(p) == p[Len(p)]

RECURSIVE as_str(_)
as_str(p) ==
    IF p = <<>> THEN <<>>
    ELSE IF Len(p) = 1 THEN p[1]
    ELSE p[1] \o <<"/">> \o as_str(Tail(p))

starts_with(s, g) == IsPrefix(g, s)

\* PullPushArgs.source and PullPushArgs.dest as given on the command line.
source == << <<"s">> >>
dest_arg == << <<"d">> >>
source_file_name == file_name(source)
\* dest.push(source_file_name)
dest == Append(dest_arg, source_file_name)

\* ------------------------------------------------------------------ files
SyncFile(path, size, timestamp) ==
    [path |-> path, name |-> file_name(path), size |-> size, timestamp |-> timestamp]

\* Eq and Hash of SyncFile: two entries of one bucket are the same file when
\* their names are equal; size and timestamp are payload.
SameFile(f, g) == f.name = g.name

\* HashSet::get
Get(set, f) == {g \in set : SameFile(g, f)}

\* HashSet::difference
Difference(s, t) == {f \in s : Get(t, f) = {}}

\* ------------------------------------------------------ the Tree Adapter
\* A tree is a set of directories and a set of files, both by absolute path.
Ancestors(p) == {SubSeq(p, 1, i) : i \in 1..Len(p)}

FilesUnder(fsys, root) == {f \in fsys.files : IsPrefix(root, f.path)}

\* Directories beneath root with no file anywhere in their subtree.
EmptyDirsUnder(fsys, root) ==
    {d \in fsys.dirs : /\ IsPrefix(root, d)
                       /\ d # root
                       /\ \A f \in fsys.files : ~IsPrefix(d, f.path)}

get_all_files(fsys, root) == <<FilesUnder(fsys, root), EmptyDirsUnder(fsys, root)>>

exists(fsys, p) == p \in fsys.dirs

mkdir(fsys, p) == [fsys EXCEPT !.dirs = @ \cup Ancestors(p)]

rm_file(fsys, p) == [fsys EXCEPT !.files = {f \in @ : f.path # p}]

rm_dir(fsys, p) ==
    [dirs |-> {d \in fsys.dirs : ~IsPrefix(p, d)},
     files |-> {f \in fsys.files : ~IsPrefix(p, f.path)}]

set_mtime(fsys, p, ts) ==
    [fsys EXCEPT !.files =
        {IF f.path = p THEN [f EXCEPT !.timestamp = ts] ELSE f : f \in @}]

\* adb pull / adb push of one file: the destination file takes the source's
\* size; -a makes it take the source's timestamp too.
transfer(fsys, af, lf_path, preserve) ==
    [fsys EXCEPT !.files =
        {f \in @ : f.path # lf_path} \cup
        {SyncFile(lf_path, af.size,
                  IF preserve THEN af.timestamp ELSE TransferTime)}]

\* ----------------------------------------------------------- pure helpers
\* Option<HashSet<SyncFile>>
None == [some |-> FALSE, set |-> {}]
Some(s) == [some |-> TRUE, set |-> s]

\* get_dir_file_map
BucketKey(f, dir) == pop(strip_prefix(f.path, dir))

get_dir_file_map(fs, dir) ==
    [p \in {BucketKey(f, dir) : f \in fs} |-> {f \in fs : BucketKey(f, dir) = p}]

\* A filter that compares whole path components: "a" skips a and a/b, not ab.
Ignored_Component(ignore_dir, path) ==
    \E g \in ignore_dir : path # <<>> /\ path[1] = g

\* ignore_dir.iter().any(|g| path.as_str().starts_with(g))
Ignored(ignore_dir, path) == \E g \in ignore_dir : starts_with(as_str(path), g)

\* A choice of mode with the two directions exchanged.
SetMtime_Swapped(adb_command, set_times) ==
    IF set_times
    THEN IF adb_command = "pull" THEN "WithMtime" ELSE "WithAdb"
    ELSE "None"

\* let mut setmtime = ...
SetMtime(adb_command, set_times) ==
    IF set_times
    THEN IF adb_command = "pull" THEN "WithAdb" ELSE "WithMtime"
    ELSE "None"

\* A copy decision that forgets the size test.
CopyReason_NoSize(af, lfs) ==
    IF lfs = {} THEN "DNE"
    ELSE IF af.timestamp > (CHOOSE g \in lfs : TRUE).timestamp THEN "NEWER"
    ELSE "SKIP"

\* The match of the file loop; lfs is the result of localfs.get(af), a set
\* with at most one element.
CopyReason(af, lfs) ==
    IF lfs = {} THEN "DNE"
    ELSE LET lf == CHOOSE g \in lfs : TRUE
         IN IF af.size # lf.size THEN "SIZE"
            ELSE IF af.timestamp > lf.timestamp THEN "NEWER"
            ELSE "SKIP"

\* A lookup that applies the trailing-dot adjustment to the copy decision too.
localfs_get_Dotless(localfs, af) ==
    IF localfs.some
    THEN {g \in localfs.set : g.name = af.name \/ Append(g.name, ".") = af.name}
    ELSE {}

\* let lf = localfs.as_ref().and_then(|localfs| localfs.get(af)): a set with
\* at most one element.
localfs_get(localfs, af) == IF localfs.some THEN Get(localfs.set, af) ELSE {}

\* A transfer whose second argument is the path of the source file.
TargetPath_Source(af, lfs, path) == af.path

\* The destination path of a transfer.
TargetPath(af, lfs, path) ==
    IF lfs = {} THEN join(join(dest, path), <<af.name>>)
    ELSE (CHOOSE g \in lfs : TRUE).path

\* An orphan test that forgets the trailing-dot adjustment.
Doomed_NoDot(sf_del, androidfs) == TRUE

\* A destination file of localfs.difference(&androidfs) is removed unless the
\* source bucket holds its name with a '.' appended.
Doomed(sf_del, androidfs) ==
    Get(androidfs, [sf_del EXCEPT !.name = Append(sf_del.name, ".")]) = {}

\* A removal loop that is entered whatever the flag says.
OrphanCandidates_NoFlag(delete_if_dne, lfs, afs) ==
    IF lfs.some THEN Difference(lfs.set, afs) ELSE {}

\* A bucket pass that never creates the directory of a new bucket.
NeedsMkdir_Never(lfs) == FALSE

\* if delete_if_dne { if let Some(localfs) = localfs { for sf_del in
\* localfs.difference(&androidfs) ...: the files the removal loop visits.
OrphanCandidates(delete_if_dne, lfs, afs) ==
    IF delete_if_dne /\ lfs.some THEN Difference(lfs.set, afs) ELSE {}

\* if localfs.is_none() { dest_fs.mkdir(..) }
NeedsMkdir(lfs) == ~lfs.some

\* A removal pass that returns the error of rm_dir to its caller.
rm_dir_fatal_Returned(ok) == ~ok

\* let _ = dest_fs.rm_dir(&p).map_err(|e| log!(..)): the error of rm_dir is
\* logged and dropped, it never ends the run.
rm_dir_fatal(ok) == FALSE

\* A root creation that does not look at the direction.
RootMissing_AnyDirection(adb_command, root_exists) == ~root_exists

\* adb_command == "pull" && !dest.exists()
RootMissing(adb_command, root_exists) == adb_command = "pull" /\ ~root_exists

\* A set of empty directories that keeps the absolute paths.
empty_dirs_hs_Absolute(empty_dirs, prefix) == empty_dirs

\* empty_dirs_hs
empty_dirs_hs(empty_dirs, prefix) == {strip_prefix(p, prefix) : p \in empty_dirs}

\* adb_with_reason: the outcomes of one call on tree fsys with log lg.  A
\* primitive that fails leaves the tree as it was and ends the call.
Prim(op, p, ok, src, flag, ts) ==
    [op |-> op, path |-> p, ok |-> ok, src |-> src, flag |-> flag, ts |-> ts,
     reason |-> ""]

TransferOutcomes(fsys, lg, af, lf_path, reason, flag) ==
    {[fs |-> IF ok THEN transfer(fsys, af, lf_path, flag) ELSE fsys,
      log |-> Append(lg, [Prim("transfer", lf_path, ok, af.path, flag, 0)
                            EXCEPT !.reason = reason]),
      ok |-> ok] : ok \in BOOLEAN}

SetMtimeOutcomes(fsys, lg, lf_path, ts) ==
    {[fs |-> IF ok THEN set_mtime(fsys, lf_path, ts) ELSE fsys,
      log |-> Append(lg, Prim("set_mtime", lf_path, ok, <<>>, FALSE, ts)),
      ok |-> ok] : ok \in BOOLEAN}

\* A call that goes on to set_mtime whatever the transfer returned.
adb_with_reason_NoReturn(fsys, lg, af, lf_path, reason, set_mtime_mode) ==
    IF set_mtime_mode = "WithAdb"
    THEN TransferOutcomes(fsys, lg, af, lf_path, reason, TRUE)
    ELSE IF set_mtime_mode = "WithMtime"
    THEN UNION {SetMtimeOutcomes(o.fs, o.log, lf_path, af.timestamp) :
                  o \in TransferOutcomes(fsys, lg, af, lf_path, reason, FALSE)}
    ELSE TransferOutcomes(fsys, lg, af, lf_path, reason, FALSE)

adb_with_reason(fsys, lg, af, lf_path, reason, set_mtime_mode) ==
    IF set_mtime_mode = "WithAdb"
    THEN TransferOutcomes(fsys, lg, af, lf_path, reason, TRUE)
    ELSE IF set_mtime_mode = "WithMtime"
    THEN UNION {IF o.ok
                THEN SetMtimeOutcomes(o.fs, o.log, lf_path, af.timestamp)
                ELSE {o} : o \in TransferOutcomes(fsys, lg, af, lf_path, reason, FALSE)}
    ELSE TransferOutcomes(fsys, lg, af, lf_path, reason, FALSE)

\* -------------------------------------------------------------- the state
VARIABLES
    srcFS,                \* the source tree (behind src_fs)
    srcFS0,               \* the source tree when the first run began
    destFS,               \* the destination tree (behind dest_fs)
    destFS0,              \* the destination tree when the current run began
    args,                 \* PullPushArgs and adb_command
    pc,                   \* position in pull_push
    result,               \* "running", "Ok" or "Err"
    run,                  \* which run of pull_push this is
    clean,                \* no primitive has failed so far, in any run
    log,                  \* the primitives issued by the current run, in order
    src_empty_dirs,       \* after the retain of the ignore filter
    dest_empty_dirs,
    dir_file_map_android, \* the source buckets not yet visited
    dir_file_map_local,   \* the working destination map
    path,                 \* the bucket being processed
    androidfs,
    localfs,              \* Option<HashSet<SyncFile>>
    todo,                 \* the files of androidfs not yet visited
    del,                  \* the files of localfs.difference(androidfs) not yet visited
    mk_todo,              \* src_empty_dirs_hs.difference(dest_empty_dirs_hs), not yet visited
    rm_done,              \* the keys of dir_file_map_local already visited by the removal loop
    rm_empty_todo         \* dest_empty_dirs_hs.difference(src_empty_dirs_hs), not yet visited

vars == <<srcFS, srcFS0, destFS, destFS0, args, pc, result, run, clean, log,
          src_empty_dirs, dest_empty_dirs, dir_file_map_android,
          dir_file_map_local, path, androidfs, localfs, todo, del, mk_todo,
          rm_done, rm_empty_todo>>

\* ------------------------------------------------------ the initial trees
Slots == RelDirs \X Names

FileSets(root, counts, sizes, times) ==
    UNION {{{SyncFile(join(join(root, s[1]), <<s[2]>>), at[s][1], at[s][2]) : s \in S} :
             at \in [S -> sizes \X times]} :
           S \in {T \in SUBSET Slots : Cardinality(T) \in counts}}

Trees(root, counts, sizes, times) ==
    UNION {{[dirs |-> Ancestors(root)
                \cup UNION {Ancestors(pop(f.path)) : f \in F}
                \cup UNION {Ancestors(join(root, d)) : d \in E},
      files |-> F] : E \in ExtraDirs(F)} : F \in FileSets(root, counts, sizes, times)}

\* The destination root may be absent: only the directory given as dest exists.
AbsentRoot == [dirs |-> Ancestors(dest_arg), files |-> {}]

\* The size and the timestamp of a destination file are read only when a
\* source file has its relative path (lines 161 and 164).  A destination file
\* takes every size and timestamp when a source file has its relative path,
\* and the source's, an older one's or another size with a newer timestamp
\* when a source file has its relative path followed by '.'; the other
\* destination files all start with the source's size and timestamp.
Plain(f, src) ==
    \/ \E af \in src.files :
         LET rel == strip_prefix(f.path, dest)
         IN \/ strip_prefix(af.path, source) = rel
            \/ /\ strip_prefix(af.path, source) = Append(pop(rel), Append(f.name, "."))
               /\ \/ (f.size \in SrcSizes /\ f.timestamp < MaxTime)
                  \/ (f.size \notin SrcSizes /\ f.timestamp > MaxTime)
    \/ (f.size \in SrcSizes /\ f.timestamp \in SrcTimes)

InitWith(src_counts, dest_counts) ==
    /\ srcFS \in Trees(source, src_counts, SrcSizes, SrcTimes)
    /\ destFS \in Trees(dest, dest_counts, DestSizes, DestTimes) \cup {AbsentRoot}
    /\ \A f \in destFS.files : Plain(f, srcFS)
    /\ (Cardinality(srcFS.files) \in SmallCounts
          \/ Cardinality(destFS.files) \in SmallCounts)
    /\ srcFS0 = srcFS
    /\ destFS0 = destFS
    /\ args \in [adb_command : {"pull", "push"}, set_times : BOOLEAN,
                 delete_if_dne : BOOLEAN, ignore_dir : IgnoreChoices]
    /\ pc = "start"
    /\ result = "running"
    /\ run = 1
    /\ clean = TRUE
    /\ log = <<>>
    /\ src_empty_dirs = {}
    /\ dest_empty_dirs = {}
    /\ dir_file_map_android = <<>>
    /\ dir_file_map_local = <<>>
    /\ path = <<>>
    /\ androidfs = {}
    /\ localfs = None
    /\ todo = {}
    /\ del = {}
    /\ mk_todo = {}
    /\ rm_done = {}
    /\ rm_empty_todo = {}

\* ------------------------------------------------------------ the actions
Restrict(f, keys) == [k \in keys |-> f[k]]

setmtime == SetMtime(args.adb_command, args.set_times)

Abort == pc' = "done" /\ result' = "Err" /\ clean' = FALSE

\* Lines 109-131: the destination root is computed and, for a pull, created
\* when it does not exist.
Start ==
    /\ pc = "start"
    /\ IF RootMissing(args.adb_command, exists(destFS, dest))
       THEN \E ok \in BOOLEAN :
              /\ log' = Append(log, Prim("mkdir", dest, ok, <<>>, FALSE, 0))
              /\ IF ok
                 THEN /\ destFS' = mkdir(destFS, dest)
                      /\ pc' = "list_src"
                      /\ UNCHANGED <<result, clean>>
                 ELSE /\ Abort
                      /\ UNCHANGED destFS
       ELSE /\ pc' = "list_src"
            /\ UNCHANGED <<destFS, log, result, clean>>
    /\ UNCHANGED <<srcFS, srcFS0, destFS0, args, run, src_empty_dirs, dest_empty_dirs,
                   dir_file_map_android, dir_file_map_local, path, androidfs,
                   localfs, todo, del, mk_todo, rm_done, rm_empty_todo>>

\* Lines 133-143: the source listing, the ignore filter on its empty
\* directories, and the source buckets.
ListSrc ==
    /\ pc = "list_src"
    /\ LET listing == get_all_files(srcFS, source)
       IN /\ src_empty_dirs' =
                {d \in listing[2] : ~Ignored(args.ignore_dir, strip_prefix(d, source))}
          /\ dir_file_map_android' = get_dir_file_map(listing[1], source)
    /\ log' = Append(log, Prim("list", source, TRUE, <<>>, FALSE, 0))
    /\ pc' = "list_dest"
    /\ UNCHANGED <<srcFS, srcFS0, destFS, destFS0, args, result, run, clean,
                   dest_empty_dirs, dir_file_map_local, path, androidfs,
                   localfs, todo, del, mk_todo, rm_done, rm_empty_todo>>

\* Lines 145-146: the destination listing and the working destination map.
\* The two differences of lines 203 and 215 are fixed from here on.
ListDest ==
    /\ pc = "list_dest"
    /\ LET listing == get_all_files(destFS, dest)
           dest_empty_dirs_hs == empty_dirs_hs(listing[2], dest)
           src_empty_dirs_hs == empty_dirs_hs(src_empty_dirs, source)
       IN /\ dest_empty_dirs' = listing[2]
          /\ dir_file_map_local' = get_dir_file_map(listing[1], dest)
          /\ mk_todo' = src_empty_dirs_hs \ dest_empty_dirs_hs
          /\ rm_empty_todo' = dest_empty_dirs_hs \ src_empty_dirs_hs
    /\ log' = Append(log, Prim("list", dest, TRUE, <<>>, FALSE, 0))
    /\ pc' = "sync"
    /\ UNCHANGED <<srcFS, srcFS0, destFS, destFS0, args, result, run, clean,
                   src_empty_dirs, dir_file_map_android, path, androidfs,
                   localfs, todo, del, rm_done>>

\* Lines 148-156: the next source bucket, in the order of the HashMap.
NextBucket(p) ==
    /\ pc = "sync" /\ todo = {} /\ del = {}
    /\ p \in DOMAIN dir_file_map_android
    /\ LET afs == dir_file_map_android[p]
           lfs == IF p \in DOMAIN dir_file_map_local
                  THEN Some(dir_file_map_local[p]) ELSE None
       IN /\ dir_file_map_android' =
                Restrict(dir_file_map_android, DOMAIN dir_file_map_android \ {p})
          /\ dir_file_map_local' =
                Restrict(dir_file_map_local, DOMAIN dir_file_map_local \ {p})
          /\ path' = p
          /\ androidfs' = afs
          /\ localfs' = lfs
          /\ IF Ignored(args.ignore_dir, p)
             THEN UNCHANGED <<destFS, log, pc, result, clean, todo, del>>
             ELSE IF ~NeedsMkdir(lfs)
             THEN /\ todo' = afs
                  /\ del' = OrphanCandidates(args.delete_if_dne, lfs, afs)
                  /\ UNCHANGED <<destFS, log, pc, result, clean>>
             ELSE \E ok \in BOOLEAN :
                    /\ log' = Append(log, Prim("mkdir", join(dest, p), ok, <<>>, FALSE, 0))
                    /\ IF ok
                       THEN /\ destFS' = mkdir(destFS, join(dest, p))
                            /\ todo' = afs
                            /\ del' = OrphanCandidates(args.delete_if_dne, lfs, afs)
                            /\ UNCHANGED <<pc, result, clean>>
                       ELSE /\ Abort
                            /\ UNCHANGED <<destFS, todo, del>>
    /\ UNCHANGED <<srcFS, srcFS0, destFS0, args, run, src_empty_dirs, dest_empty_dirs,
                   mk_todo, rm_done, rm_empty_todo>>

\* Lines 158-177: one file of the bucket, in the order of the HashSet.
FileStep(af) ==
    /\ pc = "sync"
    /\ af \in todo
    /\ todo' = todo \ {af}
    /\ LET lfs == localfs_get(localfs, af)
       IN IF CopyReason(af, lfs) = "SKIP"
          THEN UNCHANGED <<destFS, log, pc, result, clean>>
          ELSE \E o \in adb_with_reason(destFS, log, af, TargetPath(af, lfs, path),
                                       CopyReason(af, lfs), setmtime) :
                 /\ destFS' = o.fs
                 /\ log' = o.log
                 /\ IF o.ok THEN UNCHANGED <<pc, result, clean>> ELSE Abort
    /\ UNCHANGED <<srcFS, srcFS0, destFS0, args, run, src_empty_dirs, dest_empty_dirs,
                   dir_file_map_android, dir_file_map_local, path, androidfs,
                   localfs, del, mk_todo, rm_done, rm_empty_todo>>

\* Lines 178-192: one destination file of the bucket that has no source file
\* of its name.
DeleteStep(sf_del) ==
    /\ pc = "sync" /\ todo = {}
    /\ sf_del \in del
    /\ del' = del \ {sf_del}
    /\ IF Doomed(sf_del, androidfs)
       THEN \E ok \in BOOLEAN :
              /\ log' = Append(log, Prim("rm_file", sf_del.path, ok, <<>>, FALSE, 0))
              /\ IF ok
                 THEN /\ destFS' = rm_file(destFS, sf_del.path)
                      /\ UNCHANGED <<pc, result, clean>>
                 ELSE /\ Abort
                      /\ UNCHANGED destFS
       ELSE UNCHANGED <<destFS, log, pc, result, clean>>
    /\ UNCHANGED <<srcFS, srcFS0, destFS0, args, run, src_empty_dirs, dest_empty_dirs,
                   dir_file_map_android, dir_file_map_local, path, androidfs,
                   localfs, todo, mk_todo, rm_done, rm_empty_todo>>

BucketsDone ==
    pc = "sync" /\ todo = {} /\ del = {} /\ DOMAIN dir_file_map_android = {}

\* Lines 203-206: a directory that is empty on the source and not listed as
\* empty on the destination.
EmptyMkdir(d) ==
    /\ BucketsDone
    /\ d \in mk_todo
    /\ mk_todo' = mk_todo \ {d}
    /\ \E ok \in BOOLEAN :
         /\ log' = Append(log, Prim("mkdir", join(dest, d), ok, <<>>, FALSE, 0))
         /\ IF ok
            THEN /\ destFS' = mkdir(destFS, join(dest, d))
                 /\ UNCHANGED <<pc, result, clean>>
            ELSE /\ Abort
                 /\ UNCHANGED destFS
    /\ UNCHANGED <<srcFS, srcFS0, destFS0, args, run, src_empty_dirs, dest_empty_dirs,
                   dir_file_map_android, dir_file_map_local, path, androidfs,
                   localfs, todo, del, rm_done, rm_empty_todo>>

\* Lines 208-214: a key left in the working destination map.  A failure is
\* logged and dropped.
RmRemaining(k) ==
    /\ BucketsDone /\ mk_todo = {}
    /\ args.delete_if_dne
    /\ k \in DOMAIN dir_file_map_local \ rm_done
    /\ rm_done' = rm_done \cup {k}
    /\ \E ok \in BOOLEAN :
         /\ log' = Append(log, Prim("rm_dir", join(dest, k), ok, <<>>, FALSE, 0))
         /\ destFS' = IF ok THEN rm_dir(destFS, join(dest, k)) ELSE destFS
         /\ IF rm_dir_fatal(ok)
            THEN Abort
            ELSE clean' = (clean /\ ok) /\ UNCHANGED <<pc, result>>
    /\ UNCHANGED <<srcFS, srcFS0, destFS0, args, run, src_empty_dirs,
                   dest_empty_dirs, dir_file_map_android, dir_file_map_local,
                   path, androidfs, localfs, todo, del, mk_todo, rm_empty_todo>>

\* Lines 215-221: a directory that is empty on the destination and not in the
\* filtered source set.  A failure is logged and dropped.
RmEmpty(d) ==
    /\ BucketsDone /\ mk_todo = {}
    /\ args.delete_if_dne
    /\ DOMAIN dir_file_map_local \subseteq rm_done
    /\ d \in rm_empty_todo
    /\ rm_empty_todo' = rm_empty_todo \ {d}
    /\ \E ok \in BOOLEAN :
         /\ log' = Append(log, Prim("rm_dir", join(dest, d), ok, <<>>, FALSE, 0))
         /\ destFS' = IF ok THEN rm_dir(destFS, join(dest, d)) ELSE destFS
         /\ IF rm_dir_fatal(ok)
            THEN Abort
            ELSE clean' = (clean /\ ok) /\ UNCHANGED <<pc, result>>
    /\ UNCHANGED <<srcFS, srcFS0, destFS0, args, run, src_empty_dirs,
                   dest_empty_dirs, dir_file_map_android, dir_file_map_local,
                   path, androidfs, localfs, todo, del, mk_todo, rm_done>>

\* Line 223: Ok(()).
Finish ==
    /\ BucketsDone /\ mk_todo = {}
    /\ \/ ~args.delete_if_dne
       \/ (DOMAIN dir_file_map_local \subseteq rm_done /\ rm_empty_todo = {})
    /\ pc' = "done"
    /\ result' = "Ok"
    /\ UNCHANGED <<srcFS, srcFS0, destFS, destFS0, args, run, clean, log,
                   src_empty_dirs,
                   dest_empty_dirs, dir_file_map_android, dir_file_map_local,
                   path, androidfs, localfs, todo, del, mk_todo, rm_done,
                   rm_empty_todo>>

\* The program is run again with the same arguments on the trees as they are.
Rerun ==
    /\ pc = "done" /\ result = "Ok"
    /\ run < MaxRuns
    /\ run' = run + 1
    /\ pc' = "start"
    /\ result' = "running"
    /\ destFS0' = destFS
    /\ log' = <<>>
    /\ src_empty_dirs' = {}
    /\ dest_empty_dirs' = {}
    /\ dir_file_map_android' = <<>>
    /\ dir_file_map_local' = <<>>
    /\ path' = <<>>
    /\ androidfs' = {}
    /\ localfs' = None
    /\ todo' = {}
    /\ del' = {}
    /\ mk_todo' = {}
    /\ rm_done' = {}
    /\ rm_empty_todo' = {}
    /\ UNCHANGED <<srcFS, srcFS0, destFS, args, clean>>

Init == InitWith(SrcFileCounts, DestFileCounts)

\* Two runs in succession are explored from the trees that hold at most one
\* file on either side.
InitTwice == InitWith({0, 1}, {0, 1})

Next ==
    \/ Start
    \/ ListSrc
    \/ ListDest
    \/ \E p \in RelDirs : NextBucket(p)
    \/ \E af \in todo : FileStep(af)
    \/ \E sf_del \in del : DeleteStep(sf_del)
    \/ \E d \in mk_todo : EmptyMkdir(d)
    \/ \E k \in RelDirs : RmRemaining(k)
    \/ \E d \in rm_empty_todo : RmEmpty(d)
    \/ Finish

NextTwice ==
    \/ Next
    \/ Rerun

Spec == Init /\ [][Next]_vars

SpecTwice == InitTwice /\ [][NextTwice]_vars

\* ======================================================================
\* What a run is compared against: the trees as they were listed.
SrcFiles == FilesUnder(srcFS, source)
DestFiles0 == FilesUnder(destFS0, dest)
SrcKeys == {pop(strip_prefix(f.path, source)) : f \in SrcFiles}
DestKeys0 == {pop(strip_prefix(f.path, dest)) : f \in DestFiles0}
SrcBucket(p) == {f \in SrcFiles : pop(strip_prefix(f.path, source)) = p}
DestBucket0(p) == {f \in DestFiles0 : pop(strip_prefix(f.path, dest)) = p}
SrcEmpty == empty_dirs_hs(EmptyDirsUnder(srcFS, source), source)
DestEmpty0 == empty_dirs_hs(EmptyDirsUnder(destFS0, dest), dest)

Mutating == {"mkdir", "transfer", "set_mtime", "rm_file", "rm_dir"}
Issued(op, p) == \E i \in 1..Len(log) : log[i].op = op /\ log[i].path = p
IssuedOp(op) == \E i \in 1..Len(log) : log[i].op = op
ReturnedOk == pc = "done" /\ result = "Ok"

\* ---------------------------------------------------------------------
\* C1: after a run that returns Ok with no primitive failure, every source
\* file whose relative parent directory matches no ignore prefix has a file of
\* the same relative path and the same size on the destination, whatever
\* delete_if_dne is.
C1_SourceFilesOnDest ==
    (ReturnedOk /\ clean) =>
        \A f \in SrcFiles :
            ~Ignored(args.ignore_dir, pop(strip_prefix(f.path, source))) =>
                \E g \in destFS.files :
                    /\ strip_prefix(g.path, dest) = strip_prefix(f.path, source)
                    /\ g.size = f.size

\* ---------------------------------------------------------------------
\* C2: the second of two successive runs with the same arguments issues no
\* transfer, no rm_file and no rm_dir (stated for runs in which no primitive
\* failed, which the claim's "any pair of trees and any options" includes).
C2_SecondRunIdle ==
    (run = 2 /\ clean) =>
        \A i \in 1..Len(log) : log[i].op \notin {"transfer", "rm_file", "rm_dir"}

\* ---------------------------------------------------------------------
\* C3: no mutating primitive is issued on a destination directory whose
\* relative path starts with an ignore prefix, nor on anything beneath it.
\* It is stated for the runs in which no primitive fails.  The directories a
\* primitive's path lies in or beneath:
DirsOf(e) ==
    LET rel == strip_prefix(e.path, dest)
        n == IF e.op \in {"mkdir", "rm_dir"} THEN Len(rel) ELSE Len(rel) - 1
    IN {SubSeq(rel, 1, i) : i \in 1..n}

OnIgnored(e) ==
    /\ e.op \in Mutating
    /\ \E r \in DirsOf(e) : Ignored(args.ignore_dir, r)

C3_IgnoredIsolated == clean => \A i \in 1..Len(log) : ~OnIgnored(log[i])

\* ---------------------------------------------------------------------
\* C4: with delete_if_dne, in every bucket that is not ignored and exists on
\* both sides, rm_file is issued for a destination file only if the source
\* bucket holds neither its name nor its name followed by '.', and a run that
\* returns Ok has issued it for every such file.  So a destination file 'x'
\* whose source counterpart is 'x.' is never the target of an rm_file.
Orphan(lf, afs) ==
    \A af \in afs : af.name # lf.name /\ af.name # lf.name \o <<".">>

BothSides == {p \in SrcKeys \cap DestKeys0 : ~Ignored(args.ignore_dir, p)}

C4_OrphanFiles ==
    args.delete_if_dne =>
        \A p \in BothSides : \A lf \in DestBucket0(p) :
            /\ Issued("rm_file", lf.path) => Orphan(lf, SrcBucket(p))
            /\ (ReturnedOk /\ Orphan(lf, SrcBucket(p))) => Issued("rm_file", lf.path)

\* A finished run that kept 'x' because the source bucket holds 'x.'.
C4_Witness ==
    /\ ReturnedOk /\ args.delete_if_dne
    /\ \E p \in BothSides : \E lf \in DestBucket0(p) :
         /\ lf.name = x
         /\ \E af \in SrcBucket(p) : af.name = xdot
         /\ \A af \in SrcBucket(p) : af.name # x
         /\ ~Issued("rm_file", lf.path)

\* ---------------------------------------------------------------------
\* C5: without delete_if_dne no rm_file and no rm_dir is issued, and every
\* file and directory the destination held when the run began is still there.
C5_NothingRemoved ==
    ~args.delete_if_dne =>
        /\ ~IssuedOp("rm_file") /\ ~IssuedOp("rm_dir")
        /\ \A f \in destFS0.files : \E g \in destFS.files : g.path = f.path
        /\ destFS0.dirs \subseteq destFS.dirs

\* A finished run that left a destination-only file and a destination-only
\* empty directory alone.
C5_Witness ==
    /\ ReturnedOk /\ ~args.delete_if_dne
    /\ \E f \in destFS0.files :
         /\ \A af \in SrcFiles : strip_prefix(af.path, source) # strip_prefix(f.path, dest)
         /\ f \in destFS.files
    /\ \E d \in DestEmpty0 : join(source, d) \notin srcFS.dirs /\ join(dest, d) \in destFS.dirs

\* ---------------------------------------------------------------------
\* C6: a source file of a bucket that is not ignored is transferred at most
\* once, and only if the destination bucket has no file of its name, or one
\* of another size, or one of the same size and a strictly older timestamp; a
\* run that returns Ok has transferred every such file exactly once.
Transfers(af) == {i \in 1..Len(log) : log[i].op = "transfer" /\ log[i].src = af.path}

Counterparts(af) ==
    {lf \in DestBucket0(pop(strip_prefix(af.path, source))) : lf.name = af.name}

MustCopy(af) ==
    \/ Counterparts(af) = {}
    \/ \E lf \in Counterparts(af) :
         lf.size # af.size \/ (lf.size = af.size /\ lf.timestamp < af.timestamp)

C6_CopyDecision ==
    \A af \in SrcFiles :
        ~Ignored(args.ignore_dir, pop(strip_prefix(af.path, source))) =>
            /\ Cardinality(Transfers(af)) <= 1
            /\ Transfers(af) # {} => MustCopy(af)
            /\ (ReturnedOk /\ MustCopy(af)) => Transfers(af) # {}

\* A finished run that copied over a destination file of another size and a
\* newer timestamp.
C6_Witness ==
    /\ ReturnedOk
    /\ \E af \in SrcFiles : \E lf \in Counterparts(af) :
         /\ lf.size # af.size /\ lf.timestamp > af.timestamp
         /\ Cardinality(Transfers(af)) = 1

\* ---------------------------------------------------------------------
\* C7: for a source bucket that is not ignored and has no bucket on the
\* destination, every transfer into its directory comes after a mkdir of that
\* directory, and a run that returns Ok has issued that mkdir.
NewBuckets == {p \in SrcKeys \ DestKeys0 : ~Ignored(args.ignore_dir, p)}

C7_MkdirBeforeTransfer ==
    /\ \A i \in 1..Len(log) :
         (log[i].op = "transfer" /\ strip_prefix(pop(log[i].path), dest) \in NewBuckets) =>
             \E j \in 1..(i - 1) : log[j].op = "mkdir" /\ log[j].path = pop(log[i].path)
    /\ ReturnedOk => \A p \in NewBuckets : Issued("mkdir", join(dest, p))

\* A finished run that transferred a file into a directory it had to create.
C7_Witness ==
    /\ ReturnedOk
    /\ \E p \in NewBuckets : \E i \in 1..Len(log) :
         log[i].op = "transfer" /\ pop(log[i].path) = join(dest, p)

\* ---------------------------------------------------------------------
\* C8: of the directories that hold no file, a run that returns Ok, no
\* primitive having failed, has issued
\* mkdir for exactly those empty on the source and not on the destination and,
\* with delete_if_dne, rm_dir for exactly those empty on the destination and
\* not on the source; a directory that is empty on both sides receives
\* neither, whatever the ignore prefixes are.  The two differences are read
\* the way that favours the claim, with the source set as the code compares
\* it; the last clause is about the directories as they are listed.
SrcEmptyCompared == empty_dirs_hs(src_empty_dirs, source)

C8_EmptyDirs ==
    (ReturnedOk /\ clean) =>
        /\ \A d \in RelDirs \ ({<<>>} \cup SrcKeys) :
             Issued("mkdir", join(dest, d)) <=> d \in SrcEmptyCompared \ DestEmpty0
        /\ \A d \in RelDirs \ ({<<>>} \cup DestKeys0) :
             Issued("rm_dir", join(dest, d)) <=>
                 (args.delete_if_dne /\ d \in DestEmpty0 \ SrcEmptyCompared)
        /\ \A d \in SrcEmpty \cap DestEmpty0 :
             ~Issued("mkdir", join(dest, d)) /\ ~Issued("rm_dir", join(dest, d))

\* ---------------------------------------------------------------------
\* C9 as claimed: both listings, the source's and then the destination's,
\* precede every mutating primitive of the run (stated for the runs in which
\* no primitive fails).
Listed(i) ==
    \E j \in 1..(i - 1) : \E k \in (j + 1)..(i - 1) :
        /\ log[j].op = "list" /\ log[j].path = source
        /\ log[k].op = "list" /\ log[k].path = dest

C9_ListingsFirst ==
    clean => \A i \in 1..Len(log) : log[i].op \in Mutating => Listed(i)

\* C9 as amended: the source is listed once and the destination once, in that
\* order, and both listings precede every mutating primitive but one: in a
\* pull whose destination root does not exist, the mkdir of that root is the
\* first primitive of the run, before both listings.
ListIdx(p) == {i \in 1..Len(log) : log[i].op = "list" /\ log[i].path = p}

RootMkdir(i) ==
    /\ i = 1
    /\ args.adb_command = "pull"
    /\ log[i].op = "mkdir" /\ log[i].path = dest
    /\ dest \notin destFS0.dirs

C9_ListingsFirstButRoot ==
    /\ Cardinality(ListIdx(source)) <= 1
    /\ Cardinality(ListIdx(dest)) <= 1
    /\ \A k \in ListIdx(dest) : \E j \in ListIdx(source) : j < k
    /\ \A i \in 1..Len(log) : log[i].op \in Mutating => (Listed(i) \/ RootMkdir(i))

\* A pull that created the destination root, listed both trees and went on to
\* change the destination.
C9_Witness ==
    /\ Len(log) >= 4
    /\ RootMkdir(1)
    /\ log[Len(log)].op \in Mutating /\ Listed(Len(log))

\* ---------------------------------------------------------------------
\* C10: a run that began without the destination root and returned Ok, no
\* primitive having failed, ends with the destination root existing, in a
\* pull and in a push.
C10_RootCreated ==
    (ReturnedOk /\ clean /\ ~exists(destFS0, dest)) => exists(destFS, dest)

\* ---------------------------------------------------------------------
\* What the primitives of a log, applied in order, make of a tree.
FatalOps == {"mkdir", "transfer", "set_mtime", "rm_file"}

SrcFileAt(p) == CHOOSE f \in srcFS.files : f.path = p

Apply(fsys, e) ==
    IF ~e.ok THEN fsys
    ELSE CASE e.op = "mkdir" -> mkdir(fsys, e.path)
           [] e.op = "transfer" -> transfer(fsys, SrcFileAt(e.src), e.path, e.flag)
           [] e.op = "set_mtime" -> set_mtime(fsys, e.path, e.ts)
           [] e.op = "rm_file" -> rm_file(fsys, e.path)
           [] e.op = "rm_dir" -> rm_dir(fsys, e.path)
           [] OTHER -> fsys

RECURSIVE Replay(_, _)
Replay(fsys, lg) ==
    IF lg = <<>> THEN fsys ELSE Replay(Apply(fsys, Head(lg)), Tail(lg))

\* C11: a mkdir, transfer, set_mtime or rm_file that fails is the last
\* primitive of its run and the run has ended in failure; the destination of
\* a failed run is what the primitives that succeeded before the failure made
\* of it, nothing is undone.
C11_AbortOnFirstFailure ==
    /\ \A i \in 1..Len(log) :
         (log[i].op \in FatalOps /\ ~log[i].ok) =>
             (i = Len(log) /\ pc = "done" /\ result = "Err")
    /\ result = "Err" => destFS = Replay(destFS0, log)

\* A run that transferred a file into a bucket and then failed to remove an
\* orphan of that bucket: the transferred file is on the destination.
C11_Witness ==
    /\ result = "Err" /\ Len(log) >= 2
    /\ log[Len(log)].op = "rm_file" /\ ~log[Len(log)].ok
    /\ \E i \in 1..(Len(log) - 1) :
         /\ log[i].op = "transfer" /\ log[i].ok
         /\ \E g \in destFS.files : g.path = log[i].path /\ g \notin destFS0.files
    /\ \E g \in destFS.files : g.path = log[Len(log)].path

\* ---------------------------------------------------------------------
\* C12: with delete_if_dne, an rm_dir that fails does not end the run in
\* failure and does not stop it: the run can always take its next step, and
\* when it has returned Ok it has issued rm_dir for every destination bucket
\* key that is not a source bucket key and for every directory that is empty
\* on the destination and not on the source.
FailedRmDir == \E i \in 1..Len(log) : log[i].op = "rm_dir" /\ ~log[i].ok

C12_RmDirNotFatal ==
    /\ FailedRmDir => (result # "Err" /\ (pc # "done" => ENABLED Next))
    /\ (ReturnedOk /\ args.delete_if_dne) =>
         /\ \A k \in DestKeys0 \ SrcKeys : Issued("rm_dir", join(dest, k))
         /\ \A d \in DestEmpty0 \ SrcEmpty : Issued("rm_dir", join(dest, d))

\* A run that returned Ok after an rm_dir failed and a later rm_dir, of
\* another directory, succeeded.
C12_Witness ==
    /\ ReturnedOk /\ args.delete_if_dne
    /\ \E i \in 1..Len(log) : \E j \in (i + 1)..Len(log) :
         /\ log[i].op = "rm_dir" /\ ~log[i].ok
         /\ log[j].op = "rm_dir" /\ log[j].ok /\ log[j].path # log[i].path

\* ---------------------------------------------------------------------
\* C13: with set_times, every transfer of a pull carries the flag -a and no
\* set_mtime is issued; every transfer of a push is issued without the flag
\* and, when it succeeded, the very next primitive is a set_mtime of the same
\* destination path to the timestamp of the source file, and there is no
\* other set_mtime; without set_times no transfer carries the flag and no
\* set_mtime is issued.
TransferIdx == {i \in 1..Len(log) : log[i].op = "transfer"}
SetMtimeIdx == {i \in 1..Len(log) : log[i].op = "set_mtime"}

C13_MtimeAsymmetry ==
    /\ (args.set_times /\ args.adb_command = "pull") =>
         /\ SetMtimeIdx = {}
         /\ \A i \in TransferIdx : log[i].flag
    /\ (args.set_times /\ args.adb_command = "push") =>
         /\ \A i \in TransferIdx :
              /\ ~log[i].flag
              /\ log[i].ok =>
                   /\ i < Len(log)
                   /\ log[i + 1].op = "set_mtime"
                   /\ log[i + 1].path = log[i].path
                   /\ log[i + 1].ts = SrcFileAt(log[i].src).timestamp
              /\ ~log[i].ok => i = Len(log)
         /\ \A j \in SetMtimeIdx :
              /\ j > 1
              /\ log[j - 1].op = "transfer" /\ log[j - 1].ok
              /\ log[j - 1].path = log[j].path
    /\ ~args.set_times =>
         /\ SetMtimeIdx = {}
         /\ \A i \in TransferIdx : ~log[i].flag

\* A push with set_times that returned Ok after two transfers, each followed
\* by its set_mtime.
C13_Witness ==
    /\ ReturnedOk /\ args.set_times /\ args.adb_command = "push"
    /\ Cardinality(TransferIdx) = 2
    /\ Cardinality(SetMtimeIdx) = 2
    /\ \A j \in SetMtimeIdx : log[j].ok

\* ---------------------------------------------------------------------
\* C14: the destination tree a run without failure ends with is a function
\* of the source tree, the destination tree it began with and the options
\* alone, so it is the same whatever the order of the buckets, of the files
\* of a bucket and of the directories removed.  The function, written on the
\* two trees as listed:
LiveKeys == {p \in SrcKeys : ~Ignored(args.ignore_dir, p)}

RelOf(root, dirs) == {strip_prefix(d, root) : d \in dirs}

SrcEmptyKept ==
    {d \in RelOf(source, EmptyDirsUnder(srcFS, source)) : ~Ignored(args.ignore_dir, d)}

DestEmptyListed == RelOf(dest, EmptyDirsUnder(destFS0, dest))

Copied ==
    {SyncFile(join(dest, strip_prefix(af.path, source)), af.size,
              IF args.set_times THEN af.timestamp ELSE TransferTime) :
        af \in {g \in SrcFiles : /\ pop(strip_prefix(g.path, source)) \in LiveKeys
                                /\ MustCopy(g)}}

Orphans ==
    IF args.delete_if_dne
    THEN UNION {{g \in DestBucket0(p) : Orphan(g, SrcBucket(p))} :
                  p \in LiveKeys \cap DestKeys0}
    ELSE {}

RemovalRoots ==
    IF args.delete_if_dne
    THEN {join(dest, k) : k \in (DestKeys0 \ SrcKeys) \cup (DestEmptyListed \ SrcEmptyKept)}
    ELSE {}

Expected ==
    LET dirs1 == destFS0.dirs
                 \cup (IF args.adb_command = "pull" THEN Ancestors(dest) ELSE {})
                 \cup UNION {Ancestors(join(dest, p)) : p \in LiveKeys \ DestKeys0}
                 \cup UNION {Ancestors(join(dest, d)) : d \in SrcEmptyKept \ DestEmptyListed}
        files1 == {g \in destFS0.files :
                     /\ g \notin Orphans
                     /\ \A c \in Copied : c.path # g.path} \cup Copied
    IN [dirs |-> {d \in dirs1 : \A r \in RemovalRoots : ~IsPrefix(r, d)},
        files |-> {g \in files1 : \A r \in RemovalRoots : ~IsPrefix(r, g.path)}]

C14_OrderIndependent == (ReturnedOk /\ clean) => destFS = Expected

\* A run without failure that handled two source buckets, the deeper one
\* first, and removed a directory.
C14_Witness ==
    /\ ReturnedOk /\ clean
    /\ \E i \in 1..Len(log) : \E j \in (i + 1)..Len(log) :
         /\ log[i].op = "transfer" /\ log[j].op = "transfer"
         /\ Len(log[i].path) > Len(log[j].path)
    /\ IssuedOp("rm_dir")

\* ---------------------------------------------------------------------
\* C15: in a run without failure, rm_dir is issued for no directory that
\* exists in the source tree (the destination root stands for the source
\* root), and when the buckets are done every key left in the working
\* destination map is a directory of the destination that the source tree
\* does not hold.
InSource(rel) == join(source, rel) \in srcFS.dirs

C15_OrphanDirsOnly ==
    clean =>
        /\ \A i \in 1..Len(log) :
             log[i].op = "rm_dir" => ~InSource(strip_prefix(log[i].path, dest))
        /\ BucketsDone =>
             \A k \in DOMAIN dir_file_map_local :
                 join(dest, k) \in destFS0.dirs /\ ~InSource(k)

\* ---------------------------------------------------------------------
\* C16: a source bucket is skipped exactly when its key, written as a
\* string, begins with one of the prefixes: no mkdir, transfer, set_mtime or
\* rm_file is issued for a bucket whose key does, a run that returns Ok has
\* created every other bucket the destination lacked and transferred each of
\* its files that had to be copied, and the source's empty directories are
\* filtered by the same test before they are compared.
PlainPrefix(rel) ==
    \E g \in args.ignore_dir :
        LET s == as_str(rel)
        IN Len(g) <= Len(s) /\ \A i \in 1..Len(g) : s[i] = g[i]

Touched(p) ==
    \E i \in 1..Len(log) :
        /\ log[i].op \in FatalOps
        /\ IF log[i].op = "mkdir"
           THEN log[i].path = join(dest, p)
           ELSE pop(log[i].path) = join(dest, p)

C16_IgnoreFilter ==
    /\ \A p \in SrcKeys : PlainPrefix(p) => ~Touched(p)
    /\ ReturnedOk =>
         \A p \in SrcKeys : ~PlainPrefix(p) =>
             /\ p \notin DestKeys0 => Issued("mkdir", join(dest, p))
             /\ \A af \in SrcBucket(p) : MustCopy(af) => Transfers(af) # {}
    /\ ListIdx(source) # {} =>
         src_empty_dirs = {d \in EmptyDirsUnder(srcFS, source) :
                             ~PlainPrefix(strip_prefix(d, source))}
    /\ \A d \in SrcEmpty : PlainPrefix(d) => ~Issued("mkdir", join(dest, d))

\* A run with the prefix "a" that returned Ok: the source bucket ab, which
\* the destination lacks, was left alone and a file of the root bucket was
\* transferred.
C16_Witness ==
    /\ ReturnedOk /\ args.ignore_dir = {a}
    /\ <<ab>> \in SrcKeys \ DestKeys0
    /\ join(dest, <<ab>>) \notin destFS.dirs
    /\ \E af \in SrcBucket(<<>>) : Transfers(af) # {}

\* ---------------------------------------------------------------------
\* C17: a source file named 'x.' of a bucket that is not ignored, whose
\* destination bucket holds 'x' and no 'x.', is transferred only with the
\* reason DNE and only to the path named 'x.' in the destination bucket, and
\* a run that returns Ok has transferred it once, whatever the size and the
\* timestamp of 'x' are.
DotOnly ==
    {af \in SrcFiles :
        LET p == pop(strip_prefix(af.path, source))
        IN /\ af.name = xdot
           /\ ~Ignored(args.ignore_dir, p)
           /\ \E g \in DestBucket0(p) : g.name = x
           /\ \A g \in DestBucket0(p) : g.name # xdot}

C17_DotCopiedAsNew ==
    \A af \in DotOnly :
        /\ \A i \in Transfers(af) :
             /\ log[i].reason = "DNE"
             /\ log[i].path = join(dest, strip_prefix(af.path, source))
        /\ ReturnedOk => Cardinality(Transfers(af)) = 1

\* A run that returned Ok and transferred 'x.' as a new file next to an 'x'
\* of another size and a newer timestamp, which it left as it was.
C17_Witness ==
    /\ ReturnedOk
    /\ \E af \in DotOnly :
         /\ Transfers(af) # {}
         /\ \E g \in DestBucket0(pop(strip_prefix(af.path, source))) :
              /\ g.name = x
              /\ g.size # af.size /\ g.timestamp > af.timestamp
              /\ g \in destFS.files

\* ---------------------------------------------------------------------
\* C18: after a run with delete_if_dne that returned Ok, no primitive having
\* failed, every directory that is empty on the source and matches no ignore
\* prefix exists on the destination.  It is stated for the case the claim
\* includes by name: the destination directory of the same relative path
\* held files when the run began.
C18_SourceEmptyDirsOnDest ==
    (ReturnedOk /\ clean /\ args.delete_if_dne) =>
        \A d \in SrcEmpty \cap DestKeys0 :
            ~Ignored(args.ignore_dir, d) => join(dest, d) \in destFS.dirs

\* ---------------------------------------------------------------------
\* C19: the source tree is at every moment the tree the run began with, every
\* mkdir, set_mtime, rm_file and rm_dir names a path at or beneath the
\* destination root, and every transfer reads a path beneath the source root
\* and writes a path beneath the destination root.
C19_SourceUntouched ==
    /\ srcFS = srcFS0
    /\ \A i \in 1..Len(log) :
         log[i].op \in Mutating =>
             /\ IsPrefix(dest, log[i].path)
             /\ log[i].op = "transfer" =>
                  /\ Len(log[i].path) > Len(dest)
                  /\ IsPrefix(source, log[i].src)

\* A push that returned Ok after a primitive of each kind.
C19_Witness ==
    /\ ReturnedOk /\ args.adb_command = "push"
    /\ \A op \in Mutating : IssuedOp(op)
    /\ srcFS.files # {}

====
